---------------------------- MODULE Spec2Model ----------------------------
(***************************************************************************)
(* Parabolic SAR strategy backtest (backtest_app.py).                      *)
(*                                                                         *)
(* The script is a Streamlit page: a CSV upload, two number inputs and a   *)
(* "Run Backtest" button whose handler computes, column by column, the     *)
(* indicator, the signal, the lagged position, per-bar P&L, equity, the    *)
(* daily statistics, the trade log and the monthly table.                  *)
(*                                                                         *)
(* Number representation.  Prices are whole numbers.  The indicator works  *)
(* in thousandths (Milli) of a price unit and the two factors are held in  *)
(* thousandths as well; a product is rounded down to that resolution.      *)
(* Money is held in whole currency units; a per-bar return times the       *)
(* capital is rounded down to a whole unit.  Quotients that are only       *)
(* compared (daily return, drawdown) are exact fractions in lowest terms,  *)
(* with the IEEE results of a division by zero ("inf", "-inf", "nan").     *)
(***************************************************************************)
EXTENDS Integers, Sequences, FiniteSets, TLC

VARIABLES csv, uploaded_file, df, accel, max_accel, run, res

vars == <<csv, uploaded_file, df, accel, max_accel, run, res>>

---------------------------------------------------------------------------
(* Bounds of the model *)

MaxBars == 7          \* longest uploaded series
SlotsPerDay == 2      \* timestamps per calendar day

(* Inputs drawn by the model *)
Prices == {501, 502, 1000}      \* closing prices
Spreads == {0, 1}               \* high = close + spread, low = close - spread
Strides == {1, 2}               \* distance between consecutive timestamps

(* Program constants *)
Milli == 1000                   \* resolution of the factor inputs (step=0.001)
initial_capital == 100000
transaction_cost == 100

(* Values of the two number inputs: the default and one end of each range *)
AccelValues == {5, 100}          \* 0.005, 0.1
MaxAccelValues == {10, 50}       \* 0.01, 0.05

---------------------------------------------------------------------------
(* Generic helpers *)

Min2(a, b) == IF a <= b THEN a ELSE b

Abs(a) == IF a < 0 THEN -a ELSE a

RECURSIVE GCD(_, _)
GCD(a, b) == IF b = 0 THEN a ELSE GCD(b, a % b)

RECURSIVE SumSeq(_)
SumSeq(s) == IF s = <<>> THEN 0 ELSE Head(s) + SumSeq(Tail(s))

Reverse(s) == [i \in 1..Len(s) |-> s[Len(s) + 1 - i]]

(* Floating-point quotient a / b: a fraction in lowest terms with a       *)
(* positive denominator, or the IEEE value of a division by zero.         *)
Quot(a, b) ==
    IF b = 0
    THEN (IF a > 0 THEN [tag |-> "inf"]
          ELSE IF a < 0 THEN [tag |-> "-inf"] ELSE [tag |-> "nan"])
    ELSE LET g == GCD(Abs(a), Abs(b))
             s == IF b < 0 THEN -1 ELSE 1
         IN  [tag |-> "fin", num |-> s * (a \div g), den |-> Abs(b) \div g]

IsFin(q) == q.tag = "fin"

(* a/b < c/d for b, d > 0, by integer parts and remainders (no products) *)
RECURSIVE FracLess(_, _, _, _)
FracLess(a, b, c, d) ==
    LET qa == a \div b
        qc == c \div d
        ra == a % b
        rc == c % d
    IN  IF qa # qc THEN qa < qc
        ELSE IF rc = 0 THEN FALSE
        ELSE IF ra = 0 THEN TRUE
        ELSE FracLess(d, rc, b, ra)

(* q1 < q2 on finite quotients *)
QLess(q1, q2) == FracLess(q1.num, q1.den, q2.num, q2.den)

---------------------------------------------------------------------------
(* 1. Upload CSV *)

day(t) == t \div SlotsPerDay

(* df.sort_values('datetime'): insertion of each row after the rows whose *)
(* datetime is not larger                                                  *)
RECURSIVE sort_values(_)
sort_values(rows) ==
    IF rows = <<>> THEN <<>>
    ELSE LET rest == sort_values(SubSeq(rows, 1, Len(rows) - 1))
             r == rows[Len(rows)]
             k == Cardinality({i \in 1..Len(rest) : rest[i].datetime <= r.datetime})
         IN  SubSeq(rest, 1, k) \o <<r>> \o SubSeq(rest, k + 1, Len(rest))

(* The rows of an uploaded file: n bars with the given closes *)
Rows(closes, spread, stride) ==
    [i \in 1..Len(closes) |->
        [datetime |-> (i - 1) * stride,
         high |-> closes[i] + spread,
         low |-> closes[i] - spread,
         close |-> closes[i]]]

Closes == UNION {[1..n -> Prices] : n \in 0..MaxBars}

---------------------------------------------------------------------------
(* 3. Backtest logic: Generate SAR *)

(* One pass of the indicator's loop body for bar i (1-based, i >= 3).      *)
(* st carries up_trend, acceleration_factor, up_trend_high, down_trend_low *)
(* and the psar column so far; all levels are in thousandths.              *)
psar_step(st, i, H, L, step, max_step) ==
    LET prev == st.psar[i - 1]
        max_high == H[i] * Milli
        min_low == L[i] * Milli
    IN  IF st.up_trend
        THEN LET cand == prev + ((st.af * (st.up_trend_high - prev)) \div Milli)
                 low1 == L[i - 1] * Milli
                 low2 == L[i - 2] * Milli
             IN  IF min_low < cand
                 THEN [up_trend |-> FALSE,
                       af |-> step,
                       up_trend_high |-> st.up_trend_high,
                       down_trend_low |-> min_low,
                       psar |-> Append(st.psar, st.up_trend_high),
                       afs |-> Append(st.afs, step)]
                 ELSE LET newhigh == max_high > st.up_trend_high
                          af2 == IF newhigh THEN Min2(st.af + step, max_step) ELSE st.af
                          level == IF low2 < cand THEN low2
                                   ELSE IF low1 < cand THEN low1 ELSE cand
                      IN  [up_trend |-> TRUE,
                           af |-> af2,
                           up_trend_high |-> IF newhigh THEN max_high ELSE st.up_trend_high,
                           down_trend_low |-> st.down_trend_low,
                           psar |-> Append(st.psar, level),
                           afs |-> Append(st.afs, af2)]
        ELSE LET cand == prev - ((st.af * (prev - st.down_trend_low)) \div Milli)
                 high1 == H[i - 1] * Milli
                 high2 == H[i - 2] * Milli
             IN  IF max_high > cand
                 THEN [up_trend |-> TRUE,
                       af |-> step,
                       up_trend_high |-> max_high,
                       down_trend_low |-> st.down_trend_low,
                       psar |-> Append(st.psar, st.down_trend_low),
                       afs |-> Append(st.afs, step)]
                 ELSE LET newlow == min_low < st.down_trend_low
                          af2 == IF newlow THEN Min2(st.af + step, max_step) ELSE st.af
                          level == IF high2 > cand THEN high2
                                   ELSE IF high1 > cand THEN high1 ELSE cand
                      IN  [up_trend |-> FALSE,
                           af |-> af2,
                           up_trend_high |-> st.up_trend_high,
                           down_trend_low |-> IF newlow THEN min_low ELSE st.down_trend_low,
                           psar |-> Append(st.psar, level),
                           afs |-> Append(st.afs, af2)]

RECURSIVE psar_loop(_, _, _, _, _, _)
psar_loop(st, i, H, L, step, max_step) ==
    IF i > Len(H) THEN st
    ELSE psar_loop(psar_step(st, i, H, L, step, max_step), i + 1, H, L, step, max_step)

(* PSARIndicator(high, low, close, step, max_step): the psar column starts *)
(* as a copy of close, the trend starts rising with the first bar's high   *)
(* and low as extremes, and the loop runs from the third bar on.           *)
(* Requires at least one bar.                                              *)
PSARIndicator(H, L, C, step, max_step) ==
    LET n == Len(C)
        seed == [up_trend |-> TRUE,
                 af |-> step,
                 up_trend_high |-> H[1] * Milli,
                 down_trend_low |-> L[1] * Milli,
                 psar |-> [i \in 1..Min2(n, 2) |-> C[i] * Milli],
                 afs |-> [i \in 1..Min2(n, 2) |-> step]]
    IN  psar_loop(seed, 3, H, L, step, max_step)

(* np.where(close > sar, 1, np.where(close < sar, -1, 0)) *)
signal(C, sar) ==
    [i \in 1..Len(C) |->
        IF C[i] * Milli > sar[i] THEN 1
        ELSE IF C[i] * Milli < sar[i] THEN -1 ELSE 0]

---------------------------------------------------------------------------
(* 3. Backtest logic: Trade simulation *)

(* Variant without the one-bar lag: the position is the bar's own signal *)
position_nolag(sig) == sig

(* df['signal'].shift(1).fillna(0) *)
position(sig) ==
    [i \in 1..Len(sig) |-> IF i = 1 THEN 0 ELSE sig[i - 1]]

(* trade_return * initial_capital; the first bar has no previous close,   *)
(* so a non-flat first bar would give not-a-number                         *)
trade_pnl(pos, C) ==
    [i \in 1..Len(C) |->
        IF pos[i] = 1
        THEN (IF i = 1 THEN "nan" ELSE ((C[i] * initial_capital) \div C[i - 1]) - initial_capital)
        ELSE IF pos[i] = -1
        THEN (IF i = 1 THEN "nan" ELSE ((C[i - 1] * initial_capital) \div C[i]) - initial_capital)
        ELSE 0]

(* Variant without the non-flat mask: any change of position is charged, *)
(* the first bar included                                                 *)
trade_cost_anychange(pos) ==
    [i \in 1..Len(pos) |->
        IF i = 1 \/ pos[i] # pos[i - 1] THEN transaction_cost ELSE 0]

(* Variant that charges entries from flat only, not direct reversals *)
trade_cost_entryonly(pos) ==
    [i \in 1..Len(pos) |->
        IF pos[i] # 0 /\ (i = 1 \/ pos[i - 1] = 0) THEN transaction_cost ELSE 0]

(* (position != position.shift(1)) & (position != 0): on the first bar    *)
(* the shifted value is missing and compares unequal                       *)
trade_cost(pos) ==
    [i \in 1..Len(pos) |->
        IF (i = 1 \/ pos[i] # pos[i - 1]) /\ pos[i] # 0
        THEN transaction_cost ELSE 0]

net_pnl(pnl, cost) == [i \in 1..Len(pnl) |-> pnl[i] - cost[i]]

(* initial_capital + net_pnl.cumsum() *)
equity(net) ==
    [i \in 1..Len(net) |-> initial_capital + SumSeq(SubSeq(net, 1, i))]

---------------------------------------------------------------------------
(* 4. Summary metrics *)

Column(d, f) == [i \in 1..Len(d) |-> d[i][f]]

SetMin(S) == CHOOSE x \in S : \A y \in S : x <= y

SetMax(S) == CHOOSE x \in S : \A y \in S : x >= y

SumOver(idx, col) == SumSeq([k \in 1..Len(col) |-> IF k \in idx THEN col[k] ELSE 0])

(* df.resample('D', on='datetime').agg({'net_pnl': 'sum', 'equity': 'last'}) *)
(* .dropna(): one row per calendar day that has bars, in date order          *)
daily(d, net, eq) ==
    LET days == {day(d[i].datetime) : i \in 1..Len(d)}
        nth(k) == CHOOSE x \in days : Cardinality({y \in days : y < x}) = k - 1
        bars(k) == {i \in 1..Len(d) : day(d[i].datetime) = nth(k)}
    IN  [k \in 1..Cardinality(days) |->
            [day |-> nth(k),
             net_pnl |-> SumOver(bars(k), net),
             equity |-> eq[SetMax(bars(k))]]]

(* daily['net_pnl'] / daily['equity'].shift(1).fillna(initial_capital) *)
daily_ret(dl) ==
    [k \in 1..Len(dl) |->
        Quot(dl[k].net_pnl, IF k = 1 THEN initial_capital ELSE dl[k - 1].equity)]

(* Series.std(): sample standard deviation over the values that are not  *)
(* not-a-number; "nan" with fewer than two of them or with an infinite    *)
(* one, "zero" when they are all equal, "pos" otherwise                   *)
std(rets) ==
    LET valid == {k \in 1..Len(rets) : rets[k].tag # "nan"}
    IN  IF Cardinality(valid) < 2 THEN "nan"
        ELSE IF \E k \in valid : ~IsFin(rets[k]) THEN "nan"
        ELSE IF \A j, k \in valid : rets[j] = rets[k] THEN "zero"
        ELSE "pos"

(* (mean / std) * sqrt(252) if std > 0 else nan: only whether the result *)
(* is a number is modelled                                                *)
sharpe(rets) == IF std(rets) = "pos" THEN "finite" ELSE "nan"

(* daily['equity'].cummax() *)
cummax(dl) == [k \in 1..Len(dl) |-> SetMax({dl[j].equity : j \in 1..k})]

(* ((cummax - equity) / cummax).max(), not-a-number values skipped *)
max_dd(dl) ==
    LET pk == cummax(dl)
        dd == [k \in 1..Len(dl) |-> Quot(pk[k] - dl[k].equity, pk[k])]
        valid == {k \in 1..Len(dl) : dd[k].tag # "nan"}
    IN  IF valid = {} THEN [tag |-> "nan"]
        ELSE IF \E k \in valid : dd[k].tag = "inf" THEN [tag |-> "inf"]
        ELSE IF \E k \in valid : dd[k].tag = "-inf" /\ \A j \in valid : dd[j].tag = "-inf"
             THEN [tag |-> "-inf"]
        ELSE LET fin == {k \in valid : IsFin(dd[k])}
             IN  dd[CHOOSE k \in fin : \A j \in fin : ~QLess(dd[k], dd[j])]

---------------------------------------------------------------------------
(* 6. Trade log *)

(* df['position'].shift(1).fillna(0) *)
prev_position(pos) == [i \in 1..Len(pos) |-> IF i = 1 THEN 0 ELSE pos[i - 1]]

(* Variant without the non-flat mask: a change to flat starts a trade too *)
trade_start_anychange(pos) ==
    [i \in 1..Len(pos) |-> pos[i] # prev_position(pos)[i]]

trade_start(pos) ==
    [i \in 1..Len(pos) |-> pos[i] # prev_position(pos)[i] /\ pos[i] # 0]

(* Variant that labels only the starting bar of each trade *)
trade_id_startonly(ts) ==
    [i \in 1..Len(ts) |-> IF ts[i] THEN Cardinality({j \in 1..i : ts[j]}) ELSE 0]

(* df['trade_start'].cumsum() *)
trade_id(ts) == [i \in 1..Len(ts) |-> Cardinality({j \in 1..i : ts[j]})]

(* df[df['trade_id'] > 0].groupby('trade_id').agg(first/last/sum) *)
trade_log(d, pos, net, tid) ==
    LET ids == {tid[i] : i \in 1..Len(d)} \ {0}
        rows(t) == {i \in 1..Len(d) : tid[i] = t}
    IN  [t \in 1..Cardinality(ids) |->
            [entry_time |-> d[SetMin(rows(t))].datetime,
             entry_price |-> d[SetMin(rows(t))].close,
             exit_time |-> d[SetMax(rows(t))].datetime,
             exit_price |-> d[SetMax(rows(t))].close,
             direction |-> pos[SetMin(rows(t))],
             pnl |-> SumOver(rows(t), net)]]

---------------------------------------------------------------------------
(* The handler of the "Run Backtest" button, lines 40-125 *)

Backtest(d, step, max_step) ==
    IF Len(d) = 0
    THEN [status |-> "IndexError", tables |-> {}]   \* no first bar to read
    ELSE LET ind == PSARIndicator(Column(d, "high"), Column(d, "low"),
                                  Column(d, "close"), step, max_step)
             sig == signal(Column(d, "close"), ind.psar)
             pos == position(sig)
             pnl == trade_pnl(pos, Column(d, "close"))
             cost == trade_cost(pos)
             net == net_pnl(pnl, cost)
             eq == equity(net)
             dl == daily(d, net, eq)
             rets == daily_ret(dl)
             ts == trade_start(pos)
             tid == trade_id(ts)
         IN  [status |-> "ok",
              sar |-> ind.psar,
              af |-> ind.afs,
              signal |-> sig,
              position |-> pos,
              trade_pnl |-> pnl,
              trade_cost |-> cost,
              net_pnl |-> net,
              equity |-> eq,
              daily |-> dl,
              daily_ret |-> rets,
              sharpe |-> sharpe(rets),
              max_dd |-> max_dd(dl),
              final_equity |-> eq[Len(eq)],
              trade_start |-> ts,
              trade_id |-> tid,
              trade_log |-> trade_log(d, pos, net, tid),
              tables |-> {"summary_metrics", "trade_log", "monthly"}]

---------------------------------------------------------------------------
(* State machine *)

NoRes == [status |-> "none"]

(* csv is the file the user has at hand, its rows newest first.  Nothing *)
(* is uploaded yet and the two number inputs show their defaults.        *)
Init ==
    /\ \E closes \in Closes, spread \in Spreads, stride \in Strides :
          csv = Reverse(Rows(closes, spread, stride))
    /\ uploaded_file = FALSE
    /\ df = <<>>
    /\ accel = 5
    /\ max_accel = 50
    /\ run = FALSE
    /\ res = NoRes

(* The file is chosen: read, parse, sort by datetime, reset the index.   *)
(* The page reruns, so the button is not pressed and nothing is shown.   *)
Upload ==
    /\ uploaded_file' = TRUE
    /\ df' = sort_values(csv)
    /\ run' = FALSE
    /\ res' = NoRes
    /\ UNCHANGED <<csv, accel, max_accel>>

(* st.number_input("Acceleration factor", 0.001 .. 0.1) *)
SetAccel ==
    \E a \in AccelValues :
        /\ uploaded_file
        /\ accel' = a
        /\ run' = FALSE
        /\ res' = NoRes
        /\ UNCHANGED <<csv, uploaded_file, df, max_accel>>

(* st.number_input("Maximum factor", 0.01 .. 0.5) *)
SetMaxAccel ==
    \E m \in MaxAccelValues :
        /\ uploaded_file
        /\ max_accel' = m
        /\ run' = FALSE
        /\ res' = NoRes
        /\ UNCHANGED <<csv, uploaded_file, df, accel>>

(* st.button("Run Backtest") *)
RunBacktest ==
    /\ uploaded_file
    /\ run' = TRUE
    /\ res' = Backtest(df, accel, max_accel)
    /\ UNCHANGED <<csv, uploaded_file, df, accel, max_accel>>

Next == Upload \/ SetAccel \/ SetMaxAccel \/ RunBacktest

Spec == Init /\ [][Next]_vars

---------------------------------------------------------------------------
(* Properties *)

Done == run /\ res.status = "ok"

Bars == 1..Len(df)

Sgn(x) == IF x > 0 THEN 1 ELSE IF x < 0 THEN -1 ELSE 0

(* The bars a trade record spans, by its entry and exit timestamps *)
Span(t) == {i \in Bars : t.entry_time <= df[i].datetime /\ df[i].datetime <= t.exit_time}

Trades == {res.trade_log[k] : k \in 1..Len(res.trade_log)}

(* C1: the signal of a bar is the sign of close - sar on that bar, the   *)
(* position of the first bar is 0 and the position of every later bar is *)
(* the signal of the bar before it.                                       *)
Thm_C1 ==
    Done =>
        /\ Len(res.position) = Len(df)
        /\ \A i \in Bars :
              /\ res.signal[i] = Sgn(df[i].close * Milli - res.sar[i])
              /\ res.position[i] = IF i = 1 THEN 0 ELSE res.signal[i - 1]

(* a bar whose position is not flat and differs from its own signal *)
Wit_C1 ==
    /\ Done
    /\ \E i \in Bars : res.position[i] # 0 /\ res.signal[i] # res.position[i]

(* C2: on the first bar net_pnl is 0 and equity is initial_capital. *)
Thm_C2 ==
    Done => /\ res.net_pnl[1] = 0
            /\ res.trade_cost[1] = 0
            /\ res.equity[1] = initial_capital

(* a run that traded, so that equity moved after the first bar *)
Wit_C2 ==
    /\ Done
    /\ res.equity[1] = initial_capital
    /\ res.final_equity # initial_capital

(* C3: trade_cost is transaction_cost exactly on the bars whose position *)
(* is not flat and differs from the previous bar's position (flat before *)
(* the first bar), and 0 on every other bar.                              *)
Thm_C3 ==
    Done =>
        \A i \in Bars :
            LET before == IF i = 1 THEN 0 ELSE res.position[i - 1]
            IN  res.trade_cost[i] =
                    IF res.position[i] # 0 /\ res.position[i] # before
                    THEN transaction_cost ELSE 0

(* a direct reversal that is charged once and a change to flat that is *)
(* not charged, in one run                                              *)
Wit_C3 ==
    /\ Done
    /\ \E i \in Bars \ {1} :
          /\ res.position[i] = -res.position[i - 1]
          /\ res.position[i] # 0
          /\ res.trade_cost[i] = transaction_cost
    /\ \E i \in Bars \ {1} :
          /\ res.position[i] = 0
          /\ res.position[i - 1] # 0
          /\ res.trade_cost[i] = 0

(* C4: every trade record spans one maximal run of bars with the same   *)
(* non-flat position: no bar in its span is flat or of another sign, and *)
(* the bars next to its span have a different position.                  *)
CX_C4 ==
    Done =>
        \A t \in Trades :
            LET first == SetMin(Span(t))
                last == SetMax(Span(t))
            IN  /\ t.direction # 0
                /\ \A i \in Span(t) : res.position[i] = t.direction
                /\ first > 1 => res.position[first - 1] # t.direction
                /\ last < Len(df) => res.position[last + 1] # t.direction
                /\ t.exit_price = df[last].close

(* C5: the trade pnl's add up to the net_pnl of the non-flat bars and to *)
(* final equity less initial_capital; flat bars have net_pnl 0 and every *)
(* non-flat bar lies in the span of exactly one trade.                   *)
Thm_C5 ==
    Done =>
        LET nonflat == {i \in Bars : res.position[i] # 0}
            total == SumSeq([k \in 1..Len(res.trade_log) |-> res.trade_log[k].pnl])
        IN  /\ total = SumOver(nonflat, res.net_pnl)
            /\ total = res.final_equity - initial_capital
            /\ \A i \in Bars \ nonflat : res.net_pnl[i] = 0
            /\ \A i \in nonflat :
                  Cardinality({k \in 1..Len(res.trade_log) :
                                  i \in Span(res.trade_log[k])}) = 1

(* two trades, one of them held over a bar on which it earns or loses *)
Wit_C5 ==
    /\ Done
    /\ Len(res.trade_log) >= 2
    /\ \E i \in Bars \ {1} :
          /\ res.position[i] # 0
          /\ res.position[i] = res.position[i - 1]
          /\ res.net_pnl[i] # 0

(* C6: the reported maximum drawdown lies in [0, 1]. *)
CX_C6 ==
    Done => /\ IsFin(res.max_dd)
            /\ 0 <= res.max_dd.num
            /\ res.max_dd.num <= res.max_dd.den

(* C7: a run on fewer than 2 bars fails with InsufficientDataError and *)
(* shows no table.                                                      *)
CX_C7 ==
    (run /\ Len(df) < 2) =>
        /\ res.status = "InsufficientDataError"
        /\ res.tables = {}

(* C8: Sharpe is not-a-number exactly when there are fewer than 2 daily *)
(* observations or their standard deviation is 0.                        *)
CX_C8 ==
    Done =>
        (res.sharpe = "nan" <=>
            (Len(res.daily) < 2 \/ std(res.daily_ret) = "zero"))

(* C9: the acceleration of every bar lies in [accel, max_accel]. *)
CX_C9 ==
    Done => \A i \in Bars : accel <= res.af[i] /\ res.af[i] <= max_accel

(* C10: the bars that start a trade are the bars that are charged; there *)
(* are as many trade records as charged bars, and the only charged bar   *)
(* in a trade's span is its first.                                        *)
Thm_C10 ==
    Done =>
        LET charged == {i \in Bars : res.trade_cost[i] # 0}
        IN  /\ \A i \in Bars : res.trade_start[i] <=> i \in charged
            /\ Len(res.trade_log) = Cardinality(charged)
            /\ \A t \in Trades : Span(t) \cap charged = {SetMin(Span(t))}

(* three trades, one of them followed by flat bars *)
Wit_C10 ==
    /\ Done
    /\ Len(res.trade_log) >= 3
    /\ \E i \in Bars : res.position[i] = 0 /\ res.trade_id[i] > 0

===========================================================================
